---- MODULE Spec2Model ----
(***************************************************************************)
(* State machine of the Fractional Stock Investor (src/App.tsx): the App   *)
(* component's budget / stocks / investmentResults / totals state, the     *)
(* handlers that change it, and the zero-delay timer that handleRemoveStock*)
(* schedules.                                                              *)
(*                                                                         *)
(* Numbers.  Budgets, prices, returns and amounts are integers here, so    *)
(* every investedAmount the code computes is an integer.  The two derived  *)
(* quantities that are not integers are kept exact:                        *)
(*   fraction      a reduced ratio [num, den]  (amount / price)            *)
(*   actualReturn  in hundredths of the money unit, i.e. the stored value  *)
(*                 is 100 * (investedAmount * (expectedReturn / 100))      *)
(* Text inputs are sequences of one-character strings, parsed as           *)
(* parseFloat / trim parse them.                                           *)
(***************************************************************************)
EXTENDS Integers, Sequences, FiniteSets, TLC

VARIABLES budget, stocks, investmentResults, totalInvestedAmount,
          totalActualReturn, isCalculating, pending, created, last

vars == <<budget, stocks, investmentResults, totalInvestedAmount,
          totalActualReturn, isCalculating, pending, created, last>>

\* ------------------------------------------------------------------ bounds
\* Number of stocks the user adds in one session (uuids handed out).
MaxStocks == 2

\* useState<number>(10000)
InitialBudget == 10000

\* ------------------------------------------------------------ text inputs
Digits == {"0", "1", "2", "3", "4", "5", "6", "7", "8", "9"}

DigitVal(c) ==
  CASE c = "0" -> 0 [] c = "1" -> 1 [] c = "2" -> 2 [] c = "3" -> 3
    [] c = "4" -> 4 [] c = "5" -> 5 [] c = "6" -> 6 [] c = "7" -> 7
    [] c = "8" -> 8 [] c = "9" -> 9

RECURSIVE TrimStart(_)
TrimStart(s) ==
  IF s # <<>> /\ Head(s) = " " THEN TrimStart(Tail(s)) ELSE s

RECURSIVE TrimEnd(_)
TrimEnd(s) ==
  IF s # <<>> /\ s[Len(s)] = " " THEN TrimEnd(SubSeq(s, 1, Len(s) - 1)) ELSE s

\* String.prototype.trim
Trim(s) == TrimEnd(TrimStart(s))

\* Length of the longest prefix of s made of decimal digits.
RECURSIVE DigitPrefixLen(_)
DigitPrefixLen(s) ==
  IF s # <<>> /\ Head(s) \in Digits THEN 1 + DigitPrefixLen(Tail(s)) ELSE 0

RECURSIVE DigitsValue(_, _)
DigitsValue(s, acc) ==
  IF s = <<>> THEN acc ELSE DigitsValue(Tail(s), 10 * acc + DigitVal(Head(s)))

\* parseFloat on texts without a decimal point or exponent: leading blanks
\* are skipped, an optional sign and the longest run of digits are read, the
\* rest of the text is ignored; no digit at all gives NaN.
parseFloat(s) ==
  LET t      == TrimStart(s)
      signed == t # <<>> /\ Head(t) \in {"-", "+"}
      neg    == t # <<>> /\ Head(t) = "-"
      body   == IF signed THEN Tail(t) ELSE t
      n      == DigitPrefixLen(body)
      v      == DigitsValue(SubSeq(body, 1, n), 0)
  IN  IF n = 0 THEN [nan |-> TRUE, val |-> 0]
      ELSE [nan |-> FALSE, val |-> IF neg THEN 0 - v ELSE v]

isNaN(x) == x.nan

\* What the user types into the budget box.
BudgetInputs == { <<"5">> }

\* What the user submits in the add-stock form: name, price, return.
StockInputs ==
  { [name |-> <<"A", " ">>, price |-> <<"2">>, ret |-> <<"2">>],
    [name |-> <<" ", "B">>, price |-> <<"3">>, ret |-> <<"1">>],
    [name |-> <<" ">>,      price |-> <<"2">>, ret |-> <<"1">>],
    [name |-> <<"D">>,      price |-> <<"0">>, ret |-> <<"1">>],
    [name |-> <<"D">>,      price |-> <<"x">>, ret |-> <<"1">>],
    [name |-> <<"D">>,      price |-> <<"2">>, ret |-> <<"-", "1">>],
    [name |-> <<"D">>,      price |-> <<"2">>, ret |-> <<>>] }

\* What the user saves in the invested-amount edit box.
AmountInputs ==
  { <<>>, <<"-", "2">>, <<"0">>, <<"2", "x">> }

\* ----------------------------------------------------------- arithmetic
RECURSIVE GCD(_, _)
GCD(a, b) == IF b = 0 THEN a ELSE GCD(b, a % b)

\* The number n / d (n >= 0, d > 0), in lowest terms.
Ratio(n, d) ==
  LET g == GCD(n, d) IN [num |-> n \div g, den |-> d \div g]

\* Rounding up where the code rounds down.
Ceil(a, b) == (a + b - 1) \div b

\* Math.floor(a / b) for a >= 0, b > 0.
Floor(a, b) == a \div b

\* amount * (expectedReturn / 100), in hundredths.
ReturnOn(amount, expectedReturn) == amount * expectedReturn

RECURSIVE SumInvested(_)
SumInvested(rs) ==
  IF rs = <<>> THEN 0 ELSE Head(rs).investedAmount + SumInvested(Tail(rs))

RECURSIVE SumReturn(_)
SumReturn(rs) ==
  IF rs = <<>> THEN 0 ELSE Head(rs).actualReturn + SumReturn(Tail(rs))

IdsOf(stks) == { stks[i].id : i \in 1..Len(stks) }
ResultIds(rs) == { rs[i].stockId : i \in 1..Len(rs) }

\* --------------------------------------------------- greedy allocation
\* The zero-valued entry written for every stock (lines 30-36 and 50-58).
ZeroResult(stock) ==
  [stockId |-> stock.id, stockName |-> stock.name,
   fraction |-> Ratio(0, 1), investedAmount |-> 0, actualReturn |-> 0]

\* The comparator with its sign reversed: ascending ratio.
ComesBeforeAscending(b, a) ==
  b.expectedReturn * a.price < a.expectedReturn * b.price

\* A comparator that also moves b in front of a on equal ratios.
ComesBeforeOrTie(b, a) ==
  b.expectedReturn * a.price >= a.expectedReturn * b.price

\* The sort comparator (b.expectedReturn / b.price) - (a.expectedReturn /
\* a.price) is positive, i.e. b is moved in front of a, exactly when b's
\* ratio is strictly larger; compared by cross-multiplication (prices > 0).
ComesBefore(b, a) ==
  b.expectedReturn * a.price > a.expectedReturn * b.price

\* Insert s into an already sorted list behind every element it does not
\* strictly beat (Array.prototype.sort is stable).
RECURSIVE InsertSorted(_, _)
InsertSorted(sorted, s) ==
  IF sorted = <<>> THEN <<s>>
  ELSE IF ComesBefore(s, Head(sorted)) THEN <<s>> \o sorted
       ELSE <<Head(sorted)>> \o InsertSorted(Tail(sorted), s)

RECURSIVE SortFrom(_, _)
SortFrom(rest, acc) ==
  IF rest = <<>> THEN acc
  ELSE SortFrom(Tail(rest), InsertSorted(acc, Head(rest)))

\* [...stocks].sort(...)
sortedStocks(stks) == SortFrom(stks, <<>>)

\* One share bought whatever the budget affords.
PurchaseOneShare(stock, currentBudget) ==
  IF currentBudget >= stock.price
  THEN [fraction       |-> Ratio(1, 1),
        investedAmount |-> stock.price,
        actualReturn   |-> ReturnOn(stock.price, stock.expectedReturn)]
  ELSE [fraction       |-> Ratio(currentBudget, stock.price),
        investedAmount |-> currentBudget,
        actualReturn   |-> ReturnOn(currentBudget, stock.expectedReturn)]

\* The whole remaining budget spent on the stock, the part left over by the
\* whole shares included.
PurchaseWithRemainder(stock, currentBudget) ==
  [fraction       |-> Ratio(currentBudget, stock.price),
   investedAmount |-> currentBudget,
   actualReturn   |-> ReturnOn(currentBudget, stock.expectedReturn)]

\* One iteration of the for loop for one stock with currentBudget > 0.
Purchase(stock, currentBudget) ==
  IF currentBudget >= stock.price
  THEN LET numShares == Floor(currentBudget, stock.price)
       IN  [fraction       |-> Ratio(numShares, 1),
            investedAmount |-> numShares * stock.price,
            actualReturn   |-> ReturnOn(numShares * stock.price,
                                        stock.expectedReturn)]
  ELSE [fraction       |-> Ratio(currentBudget, stock.price),
        investedAmount |-> currentBudget,
        actualReturn   |-> ReturnOn(currentBudget, stock.expectedReturn)]

\* The loop left after its first iteration.
WalkFirstOnly(sorted, currentBudget, resultsMap, currentTotalReturn, currentTotalInvestedAmount) ==
  IF sorted = <<>> \/ currentBudget <= 0
  THEN [resultsMap  |-> resultsMap,
        totalReturn |-> currentTotalReturn,
        totalInvested |-> currentTotalInvestedAmount]
  ELSE LET stock == Head(sorted)
           buy   == Purchase(stock, currentBudget)
           entry == [resultsMap[stock.id] EXCEPT
                       !.fraction       = buy.fraction,
                       !.investedAmount = buy.investedAmount,
                       !.actualReturn   = buy.actualReturn]
       IN  [resultsMap  |-> [resultsMap EXCEPT ![stock.id] = entry],
            totalReturn |-> currentTotalReturn + buy.actualReturn,
            totalInvested |-> currentTotalInvestedAmount + buy.investedAmount]

\* The loop without currentBudget -= investedAmount.
RECURSIVE WalkNoDecrement(_, _, _, _, _)
WalkNoDecrement(sorted, currentBudget, resultsMap, currentTotalReturn, currentTotalInvestedAmount) ==
  IF sorted = <<>> \/ currentBudget <= 0
  THEN [resultsMap  |-> resultsMap,
        totalReturn |-> currentTotalReturn,
        totalInvested |-> currentTotalInvestedAmount]
  ELSE LET stock == Head(sorted)
           buy   == Purchase(stock, currentBudget)
           entry == [resultsMap[stock.id] EXCEPT
                       !.fraction       = buy.fraction,
                       !.investedAmount = buy.investedAmount,
                       !.actualReturn   = buy.actualReturn]
       IN  WalkNoDecrement(Tail(sorted),
                currentBudget,
                [resultsMap EXCEPT ![stock.id] = entry],
                currentTotalReturn + buy.actualReturn,
                currentTotalInvestedAmount + buy.investedAmount)

\* The for loop over sortedStocks; resultsMap is a function on stock ids.
RECURSIVE Walk(_, _, _, _, _)
Walk(sorted, currentBudget, resultsMap, currentTotalReturn, currentTotalInvestedAmount) ==
  IF sorted = <<>> \/ currentBudget <= 0
  THEN [resultsMap  |-> resultsMap,
        totalReturn |-> currentTotalReturn,
        totalInvested |-> currentTotalInvestedAmount]
  ELSE LET stock == Head(sorted)
           buy   == Purchase(stock, currentBudget)
           entry == [resultsMap[stock.id] EXCEPT
                       !.fraction       = buy.fraction,
                       !.investedAmount = buy.investedAmount,
                       !.actualReturn   = buy.actualReturn]
       IN  Walk(Tail(sorted),
                currentBudget - buy.investedAmount,
                [resultsMap EXCEPT ![stock.id] = entry],
                currentTotalReturn + buy.actualReturn,
                currentTotalInvestedAmount + buy.investedAmount)

\* No entry at all where the code writes one zero entry per stock.
InitialEntriesNone(stks) == <<>>

\* The entries of resultsMap in insertion order, which is the order of
\* stocks (ids are unique).
InitialEntries(stks) == [i \in 1..Len(stks) |-> ZeroResult(stks[i])]

\* Only the entries that received money.
finalResultsInvestedOnly(stks, resultsMap) ==
  SelectSeq([i \in 1..Len(stks) |-> resultsMap[stks[i].id]],
            LAMBDA result : result.investedAmount > 0)

\* Array.from(resultsMap.values()): the entries in insertion order.
finalResults(stks, resultsMap) ==
  [i \in 1..Len(stks) |-> resultsMap[stks[i].id]]

\* handleCalculateInvestment as a function of the budget and stocks its
\* closure holds: the three values it stores and whether it alerts.
Allocate(b, stks) ==
  IF b <= 0 \/ Len(stks) = 0
  THEN [results       |-> InitialEntries(stks),
        totalInvested |-> 0,
        totalReturn   |-> 0,
        alert         |-> "PositiveBudgetAndStock"]
  ELSE LET map0 == [id \in IdsOf(stks) |->
                      ZeroResult(CHOOSE s \in {stks[i] : i \in 1..Len(stks)} :
                                   s.id = id)]
           w    == Walk(sortedStocks(stks), b, map0, 0, 0)
       IN  [results       |-> finalResults(stks, w.resultsMap),
            totalInvested |-> w.totalInvested,
            totalReturn   |-> w.totalReturn,
            alert         |-> "none"]

\* ------------------------------------------------------------ the state
\* The add-stock form as it is after construction and after each accepted
\* add: three empty fields.
BlankForm == [name |-> <<>>, price |-> <<>>, ret |-> <<>>]

NoOp == [op |-> "init", alert |-> "none", direct |-> FALSE, id |-> 0,
         text |-> <<>>, form |-> BlankForm]

\* budget, stocks, investmentResults, the two totals and isCalculating are
\* the useState cells of App.  pending is the queue of zero-delay timers;
\* each holds the budget and stocks of the render whose handler scheduled
\* it.  created lists every stock ever added, indexed by its id; last
\* describes the handler that ran last: which one, the message it alerted,
\* for a timer whether it fired right after its click, for an adjust the
\* stock id and the text it was called with, and for an add the form it
\* read.
Init ==
  /\ budget = InitialBudget
  /\ stocks = <<>>
  /\ investmentResults = <<>>
  /\ totalInvestedAmount = 0
  /\ totalActualReturn = 0
  /\ isCalculating = FALSE
  /\ pending = <<>>
  /\ created = <<>>
  /\ last = NoOp

\* The state updates of one run of handleCalculateInvestment whose closure
\* holds budget b and stocks stks.
RunCalculate(b, stks) ==
  LET a == Allocate(b, stks)
  IN  /\ investmentResults' = a.results
      /\ totalInvestedAmount' = a.totalInvested
      /\ totalActualReturn' = a.totalReturn
      /\ isCalculating' = FALSE

\* StockInputForm.handleBudgetChange
handleBudgetChange(text) ==
  LET value == parseFloat(text)
  IN  /\ budget' = IF isNaN(value) THEN 0 ELSE value.val
      /\ last' = [NoOp EXCEPT !.op = "budget"]
      /\ UNCHANGED <<stocks, investmentResults, totalInvestedAmount,
                     totalActualReturn, isCalculating, pending, created>>

\* The validation without the trim of the name.
FormRejectedUntrimmed(form) ==
  LET price          == parseFloat(form.price)
      expectedReturn == parseFloat(form.ret)
  IN  \/ form.name = <<>>
      \/ isNaN(price) \/ price.val <= 0
      \/ isNaN(expectedReturn) \/ expectedReturn.val < 0

\* The validation of handleAddStock (line 813).
FormRejected(form) ==
  LET price          == parseFloat(form.price)
      expectedReturn == parseFloat(form.ret)
  IN  \/ Trim(form.name) = <<>>
      \/ isNaN(price) \/ price.val <= 0
      \/ isNaN(expectedReturn) \/ expectedReturn.val < 0

\* The Stock built from an accepted form (lines 818-823); uuidv4() is the
\* next unused id.
NewStock(form, id) ==
  [id |-> id, name |-> Trim(form.name),
   price |-> parseFloat(form.price).val,
   expectedReturn |-> parseFloat(form.ret).val]

\* StockInputForm.handleAddStock
handleAddStock(form) ==
  LET newStock == NewStock(form, Len(created) + 1)
  IN  /\ FormRejected(form) \/ Len(created) < MaxStocks
      /\ IF FormRejected(form)
         THEN /\ last' = [NoOp EXCEPT !.op = "add", !.alert = "InvalidStock",
                                      !.form = form]
              /\ UNCHANGED <<stocks, created>>
         ELSE /\ stocks' = Append(stocks, newStock)
              /\ created' = Append(created, newStock)
              /\ last' = [NoOp EXCEPT !.op = "add", !.form = form]
      /\ UNCHANGED <<budget, investmentResults, totalInvestedAmount,
                     totalActualReturn, isCalculating, pending>>

\* handleCalculateInvestment run in the current render.
handleCalculateInvestment ==
  /\ RunCalculate(budget, stocks)
  /\ last' = [NoOp EXCEPT !.op = "calculate",
                          !.alert = Allocate(budget, stocks).alert]
  /\ UNCHANGED <<budget, stocks, pending, created>>

\* A click on "Calculate Optimal Investment"; the button is disabled while
\* there is no stock or no positive budget.
CalculateClick ==
  /\ ~ (Len(stocks) = 0 \/ budget <= 0 \/ isCalculating)
  /\ handleCalculateInvestment

\* handleRemoveStock up to the setTimeout call: both filters are applied and
\* a timer is queued that will call the handleCalculateInvestment of the
\* render in which the click happened.
handleRemoveStock(id) ==
  /\ stocks' = SelectSeq(stocks, LAMBDA stock : stock.id # id)
  /\ investmentResults' =
       SelectSeq(investmentResults, LAMBDA result : result.stockId # id)
  /\ pending' = Append(pending, [budget |-> budget, stocks |-> stocks])
  /\ last' = [NoOp EXCEPT !.op = "remove"]
  /\ UNCHANGED <<budget, totalInvestedAmount, totalActualReturn,
                 isCalculating, created>>

\* The timer callback of handleRemoveStock fires.
RemoveTimer ==
  /\ pending # <<>>
  /\ LET t == Head(pending)
     IN  /\ RunCalculate(t.budget, t.stocks)
         /\ last' = [NoOp EXCEPT !.op = "recompute",
                       !.alert = Allocate(t.budget, t.stocks).alert,
                       !.direct = (last.op = "remove" /\ Len(pending) = 1)]
  /\ pending' = Tail(pending)
  /\ UNCHANGED <<budget, stocks, created>>

\* The adjusted entry with its actualReturn left as it was.
AdjustEntryKeepReturn(result, stockId, newAmount, stockToAdjust) ==
  IF result.stockId = stockId
  THEN [result EXCEPT
          !.fraction       = Ratio(newAmount, stockToAdjust.price),
          !.investedAmount = newAmount]
  ELSE result

\* The adjusted entry with its fraction left as it was.
AdjustEntryKeepFraction(result, stockId, newAmount, stockToAdjust) ==
  IF result.stockId = stockId
  THEN [result EXCEPT
          !.investedAmount = newAmount,
          !.actualReturn   = ReturnOn(newAmount, stockToAdjust.expectedReturn)]
  ELSE result

\* Every entry overwritten, whatever its stockId.
AdjustEntryEvery(result, stockId, newAmount, stockToAdjust) ==
  [result EXCEPT
     !.fraction       = Ratio(newAmount, stockToAdjust.price),
     !.investedAmount = newAmount,
     !.actualReturn   = ReturnOn(newAmount, stockToAdjust.expectedReturn)]

\* The entry of the updated list for one previous entry (lines 146-158).
AdjustEntry(result, stockId, newAmount, stockToAdjust) ==
  IF result.stockId = stockId
  THEN [result EXCEPT
          !.fraction       = Ratio(newAmount, stockToAdjust.price),
          !.investedAmount = newAmount,
          !.actualReturn   = ReturnOn(newAmount, stockToAdjust.expectedReturn)]
  ELSE result

\* The new amount alone compared with the budget.
NewTotalInvestedAmountOnly(total, newAmount, currentInvestmentAmount) ==
  newAmount

\* totalInvestedAmount + amountDifference (lines 136-137).
NewTotalInvested(total, newAmount, currentInvestmentAmount) ==
  total + (newAmount - currentInvestmentAmount)

\* The stock lookup made before the amount check.
AdjustOutcomeLookupFirst(newAmount, stockFound, newTotalInvested, b) ==
  IF ~ stockFound THEN "NotFound"
  ELSE IF isNaN(newAmount) \/ newAmount.val < 0 THEN "InvalidInput"
  ELSE IF newTotalInvested > b THEN "BudgetExceeded"
  ELSE "none"

\* The checks without the comparison against the budget.
AdjustOutcomeNoBudgetCheck(newAmount, stockFound, newTotalInvested, b) ==
  IF isNaN(newAmount) \/ newAmount.val < 0 THEN "InvalidInput"
  ELSE IF ~ stockFound THEN "NotFound"
  ELSE "none"

\* The three checks of handleAdjustInvestment in the order the code makes
\* them, and the message each one alerts.
AdjustOutcome(newAmount, stockFound, newTotalInvested, b) ==
  IF isNaN(newAmount) \/ newAmount.val < 0 THEN "InvalidInput"
  ELSE IF ~ stockFound THEN "NotFound"
  ELSE IF newTotalInvested > b THEN "BudgetExceeded"
  ELSE "none"

\* investmentResults.find(r => r.stockId === stockId)?.investedAmount || 0
CurrentInvestmentAmount(rs, stockId) ==
  LET current == { rs[i].investedAmount :
                     i \in { j \in 1..Len(rs) : rs[j].stockId = stockId } }
  IN  IF current = {} THEN 0 ELSE CHOOSE a \in current : TRUE

\* A reduce that leaves the first entry out of the sum.
calculatedTotalInvestedSkipFirst(updatedResults) ==
  IF updatedResults = <<>> THEN 0 ELSE SumInvested(Tail(updatedResults))

\* updatedResults.reduce((sum, res) => sum + res.investedAmount, 0)
calculatedTotalInvested(updatedResults) == SumInvested(updatedResults)

\* updatedResults.reduce((sum, res) => sum + res.actualReturn, 0)
calculatedTotalReturn(updatedResults) == SumReturn(updatedResults)

\* handleAdjustInvestment, called by the Save button of a displayed row.
handleAdjustInvestment(stockId, newAmountString) ==
  LET newAmount == parseFloat(newAmountString)
      found     == { stocks[i] : i \in 1..Len(stocks) }
      matching  == { s \in found : s.id = stockId }
      outcome   == AdjustOutcome(newAmount, matching # {},
                     NewTotalInvested(totalInvestedAmount, newAmount.val,
                       CurrentInvestmentAmount(investmentResults, stockId)),
                     budget)
  IN  /\ last' = [NoOp EXCEPT !.op = "adjust", !.alert = outcome,
                     !.id = stockId, !.text = newAmountString]
      /\ IF outcome = "none"
         THEN LET stockToAdjust  == CHOOSE s \in matching : TRUE
                  updatedResults ==
                    [i \in 1..Len(investmentResults) |->
                       AdjustEntry(investmentResults[i], stockId,
                                   newAmount.val, stockToAdjust)]
              IN  /\ investmentResults' = updatedResults
                  /\ totalInvestedAmount' =
                       calculatedTotalInvested(updatedResults)
                  /\ totalActualReturn' = calculatedTotalReturn(updatedResults)
         ELSE UNCHANGED <<investmentResults, totalInvestedAmount,
                          totalActualReturn>>
      /\ UNCHANGED <<budget, stocks, isCalculating, pending, created>>

Next ==
  \/ \E text \in BudgetInputs : handleBudgetChange(text)
  \/ \E form \in StockInputs : handleAddStock(form)
  \/ CalculateClick
  \/ \E id \in IdsOf(stocks) : handleRemoveStock(id)
  \/ RemoveTimer
  \/ \E id \in ResultIds(investmentResults), text \in AmountInputs :
       handleAdjustInvestment(id, text)

Spec == Init /\ [][Next]_vars

\* ------------------------------------------- allocation as a function
\* handleCalculateInvestment applied to budgets and stock lists drawn from
\* bounded sets: every budget sign and every list up to MaxPortfolio stocks.
MaxPortfolio == 3

AllocateBudgets == { 0 - 1, 0, 5, 7, 65, 120 }

PortfolioKinds ==
  { [price |-> 2, expectedReturn |-> 2], [price |-> 3, expectedReturn |-> 1],
    [price |-> 2, expectedReturn |-> 0], [price |-> 4, expectedReturn |-> 4],
    [price |-> 100, expectedReturn |-> 10],
    [price |-> 50, expectedReturn |-> 10],
    [price |-> 30, expectedReturn |-> 5] }

Portfolios ==
  UNION { { [i \in 1..n |-> [id |-> i, name |-> <<"S">>,
                             price |-> f[i].price,
                             expectedReturn |-> f[i].expectedReturn]] :
              f \in [1..n -> PortfolioKinds] } : n \in 0..MaxPortfolio }

InitAllocate ==
  /\ budget \in AllocateBudgets
  /\ stocks \in Portfolios
  /\ investmentResults = <<>>
  /\ totalInvestedAmount = 0
  /\ totalActualReturn = 0
  /\ isCalculating = FALSE
  /\ pending = <<>>
  /\ created = stocks
  /\ last = NoOp

NextAllocate == handleCalculateInvestment

SpecAllocate == InitAllocate /\ [][NextAllocate]_vars

\* ------------------------------------------ removal from a portfolio
\* The states right after three accepted adds, a budget entry and a click
\* on Calculate; from there the user removes, adjusts and recalculates.
AcceptedForms == { form \in StockInputs : ~ FormRejected(form) }

RemovalBudgets == { 5, InitialBudget }

InitRemoval ==
  /\ budget \in RemovalBudgets
  /\ stocks \in { [i \in 1..3 |-> NewStock(f[i], i)] :
                    f \in [1..3 -> AcceptedForms] }
  /\ investmentResults = Allocate(budget, stocks).results
  /\ totalInvestedAmount = Allocate(budget, stocks).totalInvested
  /\ totalActualReturn = Allocate(budget, stocks).totalReturn
  /\ isCalculating = FALSE
  /\ pending = <<>>
  /\ created = stocks
  /\ last = [NoOp EXCEPT !.op = "calculate"]

NextRemoval ==
  \/ CalculateClick
  \/ \E id \in IdsOf(stocks) : handleRemoveStock(id)
  \/ RemoveTimer
  \/ \E id \in ResultIds(investmentResults), text \in AmountInputs :
       handleAdjustInvestment(id, text)

SpecRemoval == InitRemoval /\ [][NextRemoval]_vars

\* --------------------------------------------------------- properties
\* A click on Calculate has run handleCalculateInvestment.
AllocateCompleted == last.op = "calculate"

\* A removal has run to the end: its timer fired right after the click,
\* with no other handler in between.
RemoveCompleted == last.op = "recompute" /\ last.direct

\* The entries of rs for one stock id.
EntriesOf(rs, id) == { rs[i] : i \in { j \in 1..Len(rs) : rs[j].stockId = id } }

\* The number f is n / d.
IsRatio(f, n, d) == f.den > 0 /\ f.num * d = n * f.den

StockSet == { stocks[i] : i \in 1..Len(stocks) }

\* C1: once a removal has completed, deferred recomputation included, the
\* results and both totals are those of a fresh allocation of the budget
\* over the stocks that remain.
C1_RemoveIsFreshAllocate ==
  RemoveCompleted =>
    /\ investmentResults = Allocate(budget, stocks).results
    /\ totalInvestedAmount = Allocate(budget, stocks).totalInvested
    /\ totalActualReturn = Allocate(budget, stocks).totalReturn

\* C2: after a completed allocate or removal the result ids are exactly the
\* ids of the stocks in the collection, one result per stock.
C2_ResultIdsAreStockIds ==
  (AllocateCompleted \/ RemoveCompleted) =>
    /\ ResultIds(investmentResults) = IdsOf(stocks)
    /\ Len(investmentResults) = Cardinality(IdsOf(stocks))

\* C3: allocate returns exactly one result per stock for every stock list
\* and every budget, and a stock that received nothing has the all-zero
\* result.
C3_OneResultPerStock ==
  AllocateCompleted =>
    /\ Len(investmentResults) = Len(stocks)
    /\ \A s \in StockSet :
         /\ Cardinality({ i \in 1..Len(investmentResults) :
                            investmentResults[i].stockId = s.id }) = 1
         /\ \A r \in EntriesOf(investmentResults, s.id) :
              r.investedAmount = 0 =>
                r.fraction.num = 0 /\ r.actualReturn = 0

C3_Witness ==
  /\ AllocateCompleted
  /\ budget > 0
  /\ Len(stocks) = 3
  /\ \E i, j \in 1..Len(investmentResults) :
       /\ investmentResults[i].investedAmount > 0
       /\ investmentResults[j].investedAmount = 0

\* C4: with a positive budget, the invested amounts add up to at most the
\* budget after every completed allocate or removal.
C4_BudgetBound ==
  ((AllocateCompleted \/ RemoveCompleted) /\ budget > 0) =>
    SumInvested(investmentResults) <= budget

C4_Witness ==
  /\ RemoveCompleted
  /\ budget = 5
  /\ SumInvested(investmentResults) = 5
  /\ Len(investmentResults) >= 2

\* C5: in every reachable state every result has
\* actualReturn = investedAmount * expectedReturn / 100 for the
\* expectedReturn of the stock it refers to (both sides in hundredths).
C5_ReturnConsistency ==
  \A i \in 1..Len(investmentResults) :
    LET r == investmentResults[i]
    IN  /\ r.stockId \in 1..Len(created)
        /\ r.actualReturn = r.investedAmount * created[r.stockId].expectedReturn

C5_Witness ==
  /\ last.op = "adjust"
  /\ last.alert = "none"
  /\ \E r \in EntriesOf(investmentResults, last.id) :
       /\ r.investedAmount = 2
       /\ r.actualReturn = 4
  /\ ~ (ResultIds(investmentResults) \subseteq IdsOf(stocks))

\* C6: with a budget <= 0 or an empty stock list allocate alerts instead of
\* allocating: every stock gets the all-zero result and both totals are 0.
C6_DegenerateInput ==
  (AllocateCompleted /\ (budget <= 0 \/ Len(stocks) = 0)) =>
    /\ Len(investmentResults) = Len(stocks)
    /\ \A i \in 1..Len(investmentResults) :
         /\ investmentResults[i].stockId = stocks[i].id
         /\ investmentResults[i].fraction.num = 0
         /\ investmentResults[i].investedAmount = 0
         /\ investmentResults[i].actualReturn = 0
    /\ totalInvestedAmount = 0
    /\ totalActualReturn = 0

C6_Witness ==
  /\ AllocateCompleted
  /\ budget <= 0
  /\ Len(stocks) = 2
  /\ Len(investmentResults) = 2
  /\ last.alert = "PositiveBudgetAndStock"

\* C7: removing the stock of strictly highest efficiency from three, when
\* the greedy ranking had used up the whole budget, changes investedAmount
\* or fraction of at least one remaining stock once the removal has
\* completed.
C7_RemovalChangesAllocation ==
  [][ ( /\ last.op = "remove"
        /\ Len(pending) = 1
        /\ last'.op = "recompute"
        /\ Len(Head(pending).stocks) = 3
        /\ Head(pending).budget = budget
        /\ budget > 0
        /\ sortedStocks(Head(pending).stocks)[1].id \notin IdsOf(stocks)
        /\ \A s \in StockSet :
             ComesBefore(sortedStocks(Head(pending).stocks)[1], s)
        /\ Allocate(budget, Head(pending).stocks).totalInvested = budget
        /\ investmentResults =
             SelectSeq(Allocate(budget, Head(pending).stocks).results,
                       LAMBDA r : r.stockId \in IdsOf(stocks)) )
      => \E s \in StockSet :
           { [a |-> r.investedAmount, f |-> r.fraction] :
               r \in EntriesOf(investmentResults', s.id) }
           # { [a |-> r.investedAmount, f |-> r.fraction] :
                 r \in EntriesOf(investmentResults, s.id) } ]_vars

\* The amount a text parses to is a number and not negative.
ValidAmount(text) == ~ isNaN(parseFloat(text)) /\ parseFloat(text).val >= 0

\* The step is a call of handleAdjustInvestment; last' holds its arguments.
AdjustStep == last'.op = "adjust"

\* C8: an adjust of an existing stock to a valid amount that would bring
\* totalInvested + (newAmount - current amount) above the budget is rejected
\* as BudgetExceeded and leaves the results and both totals unchanged.
C8_BudgetExceededRejected ==
  [][ ( /\ AdjustStep
        /\ ValidAmount(last'.text)
        /\ last'.id \in IdsOf(stocks)
        /\ totalInvestedAmount
             + (parseFloat(last'.text).val
                  - CurrentInvestmentAmount(investmentResults, last'.id))
             > budget )
      => /\ last'.alert = "BudgetExceeded"
         /\ UNCHANGED <<investmentResults, totalInvestedAmount,
                        totalActualReturn>> ]_vars

C8_Witness ==
  /\ last.op = "adjust"
  /\ last.alert = "BudgetExceeded"
  /\ ValidAmount(last.text)
  /\ last.id \in IdsOf(stocks)
  /\ budget = 5
  /\ totalInvestedAmount = 5

\* C9: an adjust whose amount is not a number or is negative is rejected as
\* InvalidInput whatever the stock id, and one with a valid amount for an id
\* that is not in the stock collection is rejected as NotFound; either way
\* results, totals, stocks and budget stay as they were.
C9_InvalidAdjustRejected ==
  [][ AdjustStep =>
        /\ ~ ValidAmount(last'.text) =>
             /\ last'.alert = "InvalidInput"
             /\ UNCHANGED <<investmentResults, totalInvestedAmount,
                            totalActualReturn, stocks, budget>>
        /\ (ValidAmount(last'.text) /\ last'.id \notin IdsOf(stocks)) =>
             /\ last'.alert = "NotFound"
             /\ UNCHANGED <<investmentResults, totalInvestedAmount,
                            totalActualReturn, stocks, budget>> ]_vars

C9_Witness ==
  /\ last.op = "adjust"
  /\ last.alert = "NotFound"
  /\ ValidAmount(last.text)
  /\ last.id \notin IdsOf(stocks)
  /\ last.id \in ResultIds(investmentResults)

\* C10: after a successful adjust the entry of the adjusted stock has
\* investedAmount = newAmount, fraction = newAmount / price and
\* actualReturn = newAmount * expectedReturn / 100 (in hundredths), price
\* and expectedReturn being those of the stock with that id.
C10_AdjustSetsEntry ==
  (last.op = "adjust" /\ last.alert = "none") =>
    /\ EntriesOf(investmentResults, last.id) # {}
    /\ { s \in StockSet : s.id = last.id } # {}
    /\ \A r \in EntriesOf(investmentResults, last.id) :
       \A s \in { x \in StockSet : x.id = last.id } :
         /\ r.investedAmount = parseFloat(last.text).val
         /\ IsRatio(r.fraction, parseFloat(last.text).val, s.price)
         /\ r.actualReturn = parseFloat(last.text).val * s.expectedReturn

C10_Witness ==
  /\ last.op = "adjust"
  /\ last.alert = "none"
  /\ parseFloat(last.text).val = 2
  /\ \E r \in EntriesOf(investmentResults, last.id) :
       /\ r.investedAmount = 2
       /\ r.fraction = [num |-> 2, den |-> 3]
       /\ r.actualReturn = 2

\* C11: a successful adjust changes no entry other than the one of the
\* adjusted stock, adds and removes no entry, and changes neither the stock
\* collection nor the budget.
C11_AdjustFrame ==
  [][ (AdjustStep /\ last'.alert = "none") =>
        /\ Len(investmentResults') = Len(investmentResults)
        /\ \A i \in 1..Len(investmentResults) :
             /\ investmentResults'[i].stockId = investmentResults[i].stockId
             /\ investmentResults[i].stockId # last'.id =>
                  investmentResults'[i] = investmentResults[i]
        /\ UNCHANGED <<stocks, budget>> ]_vars

C11_Witness ==
  /\ last.op = "adjust"
  /\ last.alert = "none"
  /\ budget = 5
  /\ \E i \in 1..Len(investmentResults) :
       /\ investmentResults[i].stockId # last.id
       /\ investmentResults[i].investedAmount = 4
  /\ investmentResults # Allocate(budget, stocks).results

\* C12: after every successful adjust, however many came before, the stored
\* totalInvestedAmount is the sum of investedAmount and the stored
\* totalActualReturn the sum of actualReturn over all current entries.
C12_AdjustTotalsAreSums ==
  (last.op = "adjust" /\ last.alert = "none") =>
    /\ totalInvestedAmount = SumInvested(investmentResults)
    /\ totalActualReturn = SumReturn(investmentResults)

C12_Witness ==
  /\ last.op = "adjust"
  /\ last.alert = "none"
  /\ Len(investmentResults) = 2
  /\ \A i \in 1..Len(investmentResults) :
       investmentResults[i].investedAmount = 2
  /\ totalInvestedAmount = 4

\* ------------------------------------------- the greedy pass, observed
\* The entry stored for stock s.
ResultOf(s) == CHOOSE r \in EntriesOf(investmentResults, s.id) : TRUE

\* expectedReturn / price of b is strictly larger than that of a.
StrictlyMoreEfficient(b, a) ==
  b.expectedReturn * a.price > a.expectedReturn * b.price

SameEfficiency(a, b) ==
  a.expectedReturn * b.price = b.expectedReturn * a.price

\* A whole number of shares, at least one.
WholeShares(r) == r.fraction.den = 1 /\ r.fraction.num >= 1

\* stocks[i] is ranked in front of stocks[j]: higher ratio, or the same
\* ratio and earlier in the input.
RankedBefore(i, j) ==
  \/ StrictlyMoreEfficient(stocks[i], stocks[j])
  \/ SameEfficiency(stocks[i], stocks[j]) /\ i < j

\* The amounts stored for the stocks ranked in front of stocks[j], summed
\* over the stocks at positions n and below.
RECURSIVE InvestedBefore(_, _)
InvestedBefore(j, n) ==
  IF n = 0 THEN 0
  ELSE InvestedBefore(j, n - 1)
       + (IF RankedBefore(n, j) THEN ResultOf(stocks[n]).investedAmount
          ELSE 0)

\* The budget left when the pass reaches stocks[j].
RemainingAt(j) == budget - InvestedBefore(j, Len(stocks))

\* A greedy pass over a positive budget and at least one stock has run.
GreedyCompleted == AllocateCompleted /\ budget > 0 /\ stocks # <<>>

\* C13: the budget is offered in descending order of expectedReturn / price:
\* whenever a stock holds a positive amount, every strictly more efficient
\* stock holds a whole number of shares, at least one.  For A (100, 10),
\* B (50, 10) and budget 120: B 2 shares and 100, A 0.2 and 20, total
\* invested 120, total return 12.
C13_DescendingEfficiency ==
  GreedyCompleted =>
    /\ \A a \in StockSet : \A b \in StockSet :
         (ResultOf(a).investedAmount > 0 /\ StrictlyMoreEfficient(b, a)) =>
           WholeShares(ResultOf(b))
    /\ ( /\ budget = 120
         /\ Len(stocks) = 2
         /\ stocks[1].price = 100 /\ stocks[1].expectedReturn = 10
         /\ stocks[2].price = 50 /\ stocks[2].expectedReturn = 10 ) =>
           /\ IsRatio(ResultOf(stocks[2]).fraction, 2, 1)
           /\ ResultOf(stocks[2]).investedAmount = 100
           /\ IsRatio(ResultOf(stocks[1]).fraction, 2, 10)
           /\ ResultOf(stocks[1]).investedAmount = 20
           /\ totalInvestedAmount = 120
           /\ totalActualReturn = 12 * 100

C13_Witness ==
  /\ GreedyCompleted
  /\ budget = 120
  /\ Len(stocks) = 2
  /\ stocks[1].price = 100 /\ stocks[1].expectedReturn = 10
  /\ stocks[2].price = 50 /\ stocks[2].expectedReturn = 10
  /\ ResultOf(stocks[1]).investedAmount = 20

\* C14: stocks of equal expectedReturn / price are served in input order:
\* when the later of two such stocks holds a positive amount, the earlier
\* one holds a whole number of shares, at least one.
C14_TiesInInputOrder ==
  GreedyCompleted =>
    \A i \in 1..Len(stocks) : \A j \in 1..Len(stocks) :
      ( /\ i < j
        /\ SameEfficiency(stocks[i], stocks[j])
        /\ ResultOf(stocks[j]).investedAmount > 0 ) =>
          WholeShares(ResultOf(stocks[i]))

C14_Witness ==
  /\ GreedyCompleted
  /\ budget = 5
  /\ Len(stocks) = 2
  /\ stocks[1].price = 4 /\ stocks[1].expectedReturn = 4
  /\ stocks[2].price = 2 /\ stocks[2].expectedReturn = 2
  /\ ResultOf(stocks[1]).investedAmount = 4
  /\ ResultOf(stocks[2]).investedAmount = 1

\* C15: a stock reached with remaining budget rem > 0 gets floor(rem /
\* price) shares, invested shares * price and fraction shares, when rem >=
\* price, and invested rem and fraction rem / price otherwise; the next
\* stock is reached with rem less the invested amount.
C15_PerStockRule ==
  GreedyCompleted =>
    \A j \in 1..Len(stocks) :
      LET rem == RemainingAt(j)
          p   == stocks[j].price
          r   == ResultOf(stocks[j])
      IN  rem > 0 =>
            IF rem >= p
            THEN /\ r.investedAmount = (rem \div p) * p
                 /\ IsRatio(r.fraction, rem \div p, 1)
            ELSE /\ r.investedAmount = rem
                 /\ IsRatio(r.fraction, rem, p)

C15_Witness ==
  /\ GreedyCompleted
  /\ budget = 7
  /\ \E i \in 1..Len(stocks) : \E j \in 1..Len(stocks) :
       /\ RankedBefore(i, j)
       /\ stocks[i].price = 2
       /\ ResultOf(stocks[i]).investedAmount = 6
       /\ stocks[j].price = 3
       /\ ResultOf(stocks[j]).investedAmount = 1

\* The stock ranked behind all others.
RankedLast(j) == \A i \in 1..Len(stocks) : i # j => RankedBefore(i, j)

\* C16: every stock is served at most once, so what the whole shares of the
\* last-ranked stock leave over stays uninvested.  A single stock of price
\* 30 with budget 65: invested 60, fraction 2, 5 uninvested.
C16_SinglePass ==
  GreedyCompleted =>
    /\ \A j \in 1..Len(stocks) :
         (RankedLast(j) /\ RemainingAt(j) >= stocks[j].price) =>
           /\ ResultOf(stocks[j]).investedAmount =
                RemainingAt(j) - (RemainingAt(j) % stocks[j].price)
           /\ budget - totalInvestedAmount =
                RemainingAt(j) % stocks[j].price
           /\ budget - SumInvested(investmentResults) =
                RemainingAt(j) % stocks[j].price
    /\ (budget = 65 /\ Len(stocks) = 1 /\ stocks[1].price = 30) =>
         /\ ResultOf(stocks[1]).investedAmount = 60
         /\ IsRatio(ResultOf(stocks[1]).fraction, 2, 1)
         /\ budget - totalInvestedAmount = 5

C16_Witness ==
  /\ GreedyCompleted
  /\ budget = 65
  /\ Len(stocks) = 1
  /\ stocks[1].price = 30
  /\ totalInvestedAmount = 60

\* The positions whose entry holds a non-integer number of shares.
FractionalPositions ==
  { i \in 1..Len(stocks) : ResultOf(stocks[i]).fraction.den > 1 }

\* C17: at most one stock holds a non-integer fraction; if one does, the
\* total invested is the budget and every stock ranked behind it holds 0.
C17_OneFractionalPurchase ==
  GreedyCompleted =>
    /\ Cardinality(FractionalPositions) <= 1
    /\ \A i \in FractionalPositions :
         /\ totalInvestedAmount = budget
         /\ \A j \in 1..Len(stocks) :
              RankedBefore(i, j) => ResultOf(stocks[j]).investedAmount = 0

C17_Witness ==
  /\ GreedyCompleted
  /\ budget = 120
  /\ Len(stocks) = 3
  /\ \E i \in FractionalPositions : \E j \in 1..Len(stocks) :
       /\ ResultOf(stocks[i]).investedAmount = 20
       /\ RankedBefore(i, j)
       /\ stocks[j].price = 30

\* ------------------------------------------------- removal and add-stock
\* C18: removing a stock is one atomic operation: while a removal has not
\* been followed by its recomputation, the only thing that runs is that
\* recomputation, so no other handler runs in or sees the state in between.
C18_RemoveIsAtomic ==
  [][ pending # <<>> => last'.op = "recompute" ]_vars

\* The form has an empty name, a price that is not a positive number or a
\* return that is not a non-negative number.
InvalidForm(form) ==
  \/ Trim(form.name) = <<>>
  \/ parseFloat(form.price).nan \/ parseFloat(form.price).val <= 0
  \/ parseFloat(form.ret).nan \/ parseFloat(form.ret).val < 0

\* C19: every stock of the collection has a non-empty name, a price > 0 and
\* an expectedReturn >= 0 in every state, and adding a form with an empty
\* name, a non-numeric or non-positive price or a non-numeric or negative
\* return is rejected and leaves the collection as it was.
C19_StocksAreValid ==
  [][ /\ \A s \in StockSet' :
           s.name # <<>> /\ s.price > 0 /\ s.expectedReturn >= 0
      /\ (last'.op = "add" /\ InvalidForm(last'.form)) =>
           (stocks' = stocks /\ last'.alert = "InvalidStock") ]_vars

C19_Witness ==
  /\ last.op = "add"
  /\ last.alert = "InvalidStock"
  /\ parseFloat(last.form.price).nan
  /\ Len(stocks) = 2
  /\ \A s \in StockSet : s.name # <<>> /\ s.price > 0

\* C20: in every state, the one between a removal and its deferred
\* recomputation included, totalInvestedAmount is the sum of investedAmount
\* and totalActualReturn the sum of actualReturn over the current results.
C20_TotalsAreSums ==
  /\ totalInvestedAmount = SumInvested(investmentResults)
  /\ totalActualReturn = SumReturn(investmentResults)

\* --------------------------------------------------- budget and remainder
\* C21: with the budget positive and left as it was at the first allocate,
\* after any sequence of allocate, remove and adjust operations, accepted
\* or rejected, the invested amounts of all results add up to at most the
\* budget and none of them is negative.
C21_InvestedWithinBudget ==
  budget > 0 =>
    /\ SumInvested(investmentResults) <= budget
    /\ \A i \in 1..Len(investmentResults) :
         investmentResults[i].investedAmount >= 0

C21_Witness ==
  /\ last.op = "adjust"
  /\ last.alert = "BudgetExceeded"
  /\ budget = 5
  /\ Len(stocks) = 2
  /\ Len(investmentResults) = 3
  /\ SumInvested(investmentResults) = 4
  /\ investmentResults # Allocate(budget, created).results

\* C22: after an allocate over a positive budget and at least one stock,
\* the uninvested remainder budget - totalInvestedAmount is >= 0 and
\* strictly below the price of every stock, so it buys no whole share.
C22_RemainderBelowEveryPrice ==
  GreedyCompleted =>
    /\ budget - totalInvestedAmount >= 0
    /\ \A s \in StockSet : budget - totalInvestedAmount < s.price

C22_Witness ==
  /\ GreedyCompleted
  /\ budget = 65
  /\ Len(stocks) = 2
  /\ \E s \in StockSet : s.price = 50
  /\ \E s \in StockSet : s.price = 2
  /\ budget - totalInvestedAmount = 1

====
